---- MODULE Spec2Model ----
(***************************************************************************)
(* Scoreboard service: the score-mutation pipeline (updateUserScore /      *)
(* updateScore), the leaderboard cache (getTopUsers, getUserScore) and the *)
(* broadcast hooks, as a state machine.                                    *)
(*                                                                         *)
(* The ledger store is PostgreSQL at READ COMMITTED: a transaction's       *)
(* writes are pending until COMMIT, SELECT ... FOR UPDATE locks the rows   *)
(* it returns (and nothing when it returns none), INSERT ... ON CONFLICT   *)
(* waits for a concurrent uncommitted insert of the same key.  The cache   *)
(* is Redis: get / setEx / del / publish, each throwing when the server    *)
(* is unreachable.                                                         *)
(***************************************************************************)
EXTENDS Integers, Sequences, FiniteSets, TLC

(* ------------------------------ bounds --------------------------------- *)

\* number of mutation calls (POST /update) in one behaviour
MaxCalls == 2
\* number of read calls (getTopUsers / getUserScore) in one behaviour
MaxReads == 3
\* number of mutation calls that run next to the read calls
CacheCalls == 1
\* number of read calls that run next to those mutation calls
CacheReads == 2
\* number of WebSocket connections in one behaviour
MaxConns == 2
\* number of process instances of the service
MaxInstances == 2
\* number of messages the channel leaderboard:updates carries in one behaviour
MaxMsgs == 1
\* number of pings a client leaves unanswered before the count stops
MaxPings == 2
\* number of mutation calls that run next to the connections
HubCalls == 1
\* number of GET /leaderboard requests in one behaviour
BoardReads == 2
\* number of 'subscribe' messages the client of one connection sends
MaxSubs == 2

(* ------------------------- program constants --------------------------- *)

MinIncrement == 1
MaxIncrement == 1000
\* 5 * 60 * 1000 ms
maxTimeDiff == 300000
\* LIMIT 10 of isUserInTop10, the window of getLeaderboard(10, 0, ..)
Top10 == 10
\* parseInt(process.env.WS_MAX_CONNECTIONS || '10000'), configured as 1 here
WS_MAX_CONNECTIONS == 1

Users == {"u1", "u2", "u3"}
\* the identities that send mutation calls
Mutators == {"u1", "u2"}

Calls == 1..MaxCalls
Readers == (MaxCalls + 1)..(MaxCalls + MaxReads)
\* the connections, numbered after the read calls
Conns == (MaxCalls + MaxReads + 1)..(MaxCalls + MaxReads + MaxConns)
Instances == 1..MaxInstances
\* the broadcast instance i starts for the m-th message of the channel
RelayId(i, m) == MaxCalls + MaxReads + MaxConns + (i - 1) * MaxMsgs + m
Relays == {RelayId(i, m) : i \in Instances, m \in 1..MaxMsgs}
\* everything that invokes getTopUsers
Procs == Calls \cup Readers \cup Conns \cup Relays

\* a value no cache key holds: redis get answers null
Null == <<>>

(* --------------------------- pure helpers ------------------------------ *)

Min(a, b) == IF a < b THEN a ELSE b

Abs(x) == IF x < 0 THEN 0 - x ELSE x

\* users.username of a participant (immutable, set at registration)
Username(u) == u

\* NaN of JavaScript, kept apart from every number a request can carry; the
\* comparisons <, >, === with it are false
NaN == -1000000

\* a < b and a > b of JavaScript
JsLess(a, b) == a # NaN /\ b # NaN /\ a < b

JsGreater(a, b) == a # NaN /\ b # NaN /\ a > b

\* parseInt(s, 10) for the query strings of the requests: the leading
\* integer of the string, NaN when there is none
ParseInt(s) ==
    CASE s = "0" -> 0
      [] s = "1" -> 1
      [] s = "2" -> 2
      [] s = "10" -> 10
      [] s = "100" -> 100
      [] s = "101" -> 101
      [] s = "-1" -> -1
      [] s = "1.5" -> 1
      [] s = "2abc" -> 2
      [] OTHER -> NaN

\* s || d for a query string: the default for an absent or empty parameter
OrDefault(s, d) == IF s = "" THEN d ELSE s

(* A JSON number of the request body is a pair <<n, d>> standing for n / d  *)
(* (d > 0): 1.5 is <<3, 2>>.                                               *)
IsInteger(q) == q[1] % q[2] = 0

NumLess(q, k) == q[1] < k * q[2]

NumGreater(q, k) == q[1] > k * q[2]

NumValue(q) == q[1] \div q[2]

(* A timestamp of the request body is <<>> (undefined) or <<t>>.           *)
(* !timestamp of JavaScript: undefined and 0 are falsy.                    *)
Falsy(timestamp) == timestamp = <<>> \/ timestamp[1] = 0

(* ---------------------- validator.ts / scoreService.ts ------------------ *)

\* validateTimestamp(timestamp) with Date.now() = now
validateTimestamp(timestamp, now) ==
    IF Falsy(timestamp)
    THEN TRUE
    ELSE Abs(now - timestamp[1]) <= maxTimeDiff

\* the lower bound of the increment is 0 instead of 1
validateScoreUpdateRequestFromZero(scoreIncrement, timestamp, now) ==
    IF ~IsInteger(scoreIncrement)
         \/ NumLess(scoreIncrement, 0)
         \/ NumGreater(scoreIncrement, MaxIncrement)
    THEN "increment"
    ELSE IF ~Falsy(timestamp) /\ ~validateTimestamp(timestamp, now)
         THEN "timestamp"
         ELSE "ok"

\* validateScoreUpdateRequest: "ok" for true, else the error it throws
validateScoreUpdateRequest(scoreIncrement, timestamp, now) ==
    IF ~IsInteger(scoreIncrement)
         \/ NumLess(scoreIncrement, MinIncrement)
         \/ NumGreater(scoreIncrement, MaxIncrement)
    THEN "increment"
    ELSE IF ~Falsy(timestamp) /\ ~validateTimestamp(timestamp, now)
         THEN "timestamp"
         ELSE "ok"

(* ----------------------------- ledger store ----------------------------- *)
(* The scores table is the sequence of its rows [user_id, score] in         *)
(* storage order; score_history is the sequence of its rows in id order.    *)

Row(u, s) == [user_id |-> u, score |-> s]

\* SELECT score FROM scores WHERE user_id = u : the scores of the rows found
SelectScore(tbl, u) ==
    LET hit(r) == r.user_id = u
        rows == SelectSeq(tbl, hit)
    IN  [i \in 1..Len(rows) |-> rows[i].score]

HasRow(tbl, u) == Len(SelectScore(tbl, u)) > 0

\* rows.length > 0 ? parseInt(rows[0].score) : 0
ScoreOrZero(tbl, u) ==
    IF HasRow(tbl, u) THEN SelectScore(tbl, u)[1] ELSE 0

\* INSERT ... ON CONFLICT (user_id) DO UPDATE SET score = s
UpsertRow(tbl, u, s) ==
    IF HasRow(tbl, u)
    THEN [i \in 1..Len(tbl) |-> IF tbl[i].user_id = u THEN Row(u, s) ELSE tbl[i]]
    ELSE Append(tbl, Row(u, s))

\* previous_score and new_score change places
HistoryRowSwapped(u, inc, prev, new, act) ==
    [user_id |-> u, score_increment |-> inc, previous_score |-> new,
     new_score |-> prev, action_id |-> act]

HistoryRow(u, inc, prev, new, act) ==
    [user_id |-> u, score_increment |-> inc, previous_score |-> prev,
     new_score |-> new, action_id |-> act]

\* the comparison is >= instead of >
RECURSIVE CountGreaterOrEqual(_, _)
CountGreaterOrEqual(tbl, x) ==
    IF tbl = <<>>
    THEN 0
    ELSE (IF Head(tbl).score >= x THEN 1 ELSE 0) + CountGreaterOrEqual(Tail(tbl), x)

\* SELECT COUNT(*) FROM scores WHERE score > x, a scan of the table
RECURSIVE CountGreater(_, _)
CountGreater(tbl, x) ==
    IF tbl = <<>>
    THEN 0
    ELSE (IF Head(tbl).score > x THEN 1 ELSE 0) + CountGreater(Tail(tbl), x)

\* getUserRank: COUNT(*) + 1 WHERE score > (SELECT score .. WHERE user_id = u);
\* the scalar subquery is NULL without a row and score > NULL selects nothing
getUserRank(tbl, u) ==
    IF HasRow(tbl, u)
    THEN CountGreater(tbl, SelectScore(tbl, u)[1]) + 1
    ELSE 1

\* the table without its i-th row
Without(tbl, i) == SubSeq(tbl, 1, i - 1) \o SubSeq(tbl, i + 1, Len(tbl))

\* ORDER BY score DESC: every order of the rows that is non-increasing in
\* score (the order among equal scores is the store's choice): a row of
\* the highest score, then an order of the other rows
RECURSIVE OrderByScoreDesc(_)
OrderByScoreDesc(tbl) ==
    IF tbl = <<>>
    THEN {<<>>}
    ELSE LET top == {i \in 1..Len(tbl) :
                        \A j \in 1..Len(tbl) : tbl[j].score <= tbl[i].score}
             picks == {<<tbl[i], Without(tbl, i)>> : i \in top}
         IN  UNION {{<<p[1]>> \o rest : rest \in OrderByScoreDesc(p[2])} : p \in picks}

\* LIMIT limit OFFSET offset
LimitOffset(rows, limit, offset) ==
    SubSeq(rows, offset + 1, Min(offset + limit, Len(rows)))

\* the result of the leaderboard query for one ordering of the rows, mapped
\* to LeaderboardEntry: ROW_NUMBER() numbers the whole ordering, the code
\* adds offset to it
LeaderboardRows(sorted, limit, offset) ==
    LET page == LimitOffset(sorted, limit, offset)
    IN  [i \in 1..Len(page) |->
            [user_id |-> page[i].user_id,
             username |-> Username(page[i].user_id),
             score |-> page[i].score,
             rank |-> (offset + i) + offset]]

\* isUserInTop10 for one ordering of the rows
InTop10(sorted, u) ==
    \E i \in 1..Min(Top10, Len(sorted)) : sorted[i].user_id = u

\* leaderboard.slice(0, limit) for a limit that is not negative (NaN counts
\* as 0)
Slice(board, limit) ==
    IF limit = NaN THEN <<>> ELSE SubSeq(board, 1, Min(limit, Len(board)))

\* the store takes the parameters of LIMIT $1 OFFSET $2: it answers NaN and
\* a negative LIMIT or OFFSET with an error
LimitOffsetAccepted(limit, offset) ==
    limit # NaN /\ offset # NaN /\ limit >= 0 /\ offset >= 0

(* -------------------------------- state -------------------------------- *)

VARIABLES
    scores,     \* committed rows of the scores table
    history,    \* committed rows of score_history
    rowLock,    \* per user_id, the transaction holding its row lock (0: none)
    lbCache,    \* redis key leaderboard:top10 : Null or <<listing>>
    userCache,  \* redis keys user_score:<id> : Null or <<score>>
    redisUp,    \* the cache server is reachable
    call,       \* the mutation calls (updateUserScore), one record each
    gt,         \* the getTopUsers invocations, one record per process
    rd,         \* the read calls, one record each
    channel,    \* messages published on leaderboard:updates
    wsOut,      \* scoreboard_update messages sent to the open clients
    scores0,    \* the scores table of the initial state
    probe,      \* the pure function applied last: its arguments and result
    conn,       \* the WebSocket connections, one record each
    connections,\* per instance, the Map userId -> Set of connections
    sub,        \* per instance, its subscriber of leaderboard:updates
    relay       \* the broadcasts started by the subscribers' messageHandler

\* the state of the broadcast hub
hubVars == <<conn, connections, sub, relay>>

vars == <<scores, history, rowLock, lbCache, userCache, redisUp, call, gt, rd,
          channel, wsOut, scores0, probe, conn, connections, sub, relay>>

(* ------------------------------ inputs --------------------------------- *)

\* Date.now() values of the server when a request is validated
NowInputs == {1000000, 2000000}

\* score_increment values of request bodies
IncrementInputs == {<<-10, 1>>, <<0, 1>>, <<1, 1>>, <<3, 2>>, <<1000, 1>>, <<1001, 1>>}

\* timestamp values of request bodies
TimestampInputs(now) == {<<>>, <<now>>, <<now - maxTimeDiff - 1>>}

ActionIds == {"a1"}

\* the scores tables a run can start from
InitTables ==
    {<<>>, <<Row("u1", 100), Row("u2", 120), Row("u3", 150)>>}

IdleCall ==
    [pc |-> "idle", token |-> "", userId |-> "", body |-> <<0, 1>>, actionId |-> "",
     inc |-> 0, cur |-> 0, new |-> 0, staged |-> {}, rank |-> 0,
     inTop10 |-> FALSE, status |-> 0, message |-> "", tx |-> "none", h0 |-> 0,
     client |-> "none", releases |-> 0, rollback |-> ""]

IdleGt == [pc |-> "off", limit |-> 0, offset |-> 0, board |-> <<>>, cause |-> ""]

IdleRead ==
    [pc |-> "idle", kind |-> "", userId |-> "", score |-> 0, cause |-> "",
     floor |-> [u \in Users |-> 0], query |-> <<"", "">>, status |-> 0]

NoProbe == [fn |-> "none"]

\* a socket no client has opened yet
IdleConn ==
    [pc |-> "none", inst |-> 0, token |-> "", userId |-> "", readyState |-> "NONE",
     code |-> 0, inbox |-> <<>>, heartbeat |-> "off", pings |-> 0,
     answering |-> TRUE, subs |-> 0]

IdleRelay == [pc |-> "off", inst |-> 0, userId |-> ""]

\* the state of a started server, but for the scores table and the probe
InitRest ==
    /\ scores0 = scores
    /\ history = <<>>
    /\ rowLock = [u \in Users |-> 0]
    /\ lbCache = Null
    /\ userCache = [u \in Users |-> Null]
    /\ redisUp = TRUE
    /\ call = [c \in Calls |-> IdleCall]
    /\ gt = [p \in Procs |-> IdleGt]
    /\ rd = [r \in Readers |-> IdleRead]
    /\ channel = <<>>
    /\ wsOut = <<>>
    /\ conn = [k \in Conns |-> IdleConn]
    /\ connections = [i \in Instances |-> [u \in Users |-> Null]]
    /\ sub = [i \in Instances |-> [state |-> "starting", read |-> 0]]
    /\ relay = [t \in Relays |-> IdleRelay]

Init ==
    /\ scores \in InitTables
    /\ probe = NoProbe
    /\ InitRest

(* ------------------- updateUserScore / updateScore --------------------- *)

\* the increment is dropped
NewScoreNoAdd(currentScore, scoreIncrement) == currentScore

\* const newScore = currentScore + scoreIncrement
NewScore(currentScore, scoreIncrement) == currentScore + scoreIncrement

(* -------------------------------- auth.ts ------------------------------- *)

\* the token of a WebSocket handshake: none, one jwt.verify rejects, or one
\* signed for a participant
TokenInputs == {"", "bad", "u1", "u3"}

\* every token verifies: one signed for nobody passes as u1's
VerifyLenient(token) == IF token \in Users THEN <<token>> ELSE <<"u1">>

\* jwt.verify(token, JWT_SECRET): the payload's userId, Null when it throws
Verify(token) == IF token \in Users THEN <<token>> ELSE Null

\* a token that does not verify is let through
authenticateTokenLenient(token) ==
    IF token = "" THEN Null ELSE VerifyLenient(token)

\* authenticateToken: req.user, Null when the middleware answers 401
\* (no token, or jwt.verify reports an error)
authenticateToken(token) ==
    IF token = "" THEN Null ELSE Verify(token)

\* the bearer tokens of mutation calls: none, one jwt.verify rejects, or one
\* signed for a participant
CallTokens == {"", "bad"} \cup Mutators

\* calls are numbered in the order they arrive
MayStart(c) ==
    /\ call[c].pc = "idle"
    /\ IF c = 1 THEN TRUE ELSE call[c - 1].pc # "idle"

Finish(c, st) == [call[c] EXCEPT !.pc = "done", !.status = st]

\* the request arrives: 401 without identity, 400 when validation throws,
\* otherwise updateScore starts (pool.connect is the first await)
Request(c) ==
    /\ MayStart(c)
    /\ \E token \in CallTokens, q \in IncrementInputs,
          now \in NowInputs, a \in ActionIds :
       \E ts \in TimestampInputs(now) :
          LET user == authenticateToken(token)
              u == IF user = Null THEN "" ELSE user[1]
              r0 == [call[c] EXCEPT !.token = token, !.userId = u, !.body = q,
                                    !.actionId = a]
              v == validateScoreUpdateRequest(q, ts, now)
          IN  call' = [call EXCEPT ![c] =
                  IF user = Null
                  THEN [IdleCall EXCEPT !.pc = "done", !.status = 401,
                                        !.token = token]
                  ELSE IF v # "ok"
                       THEN [r0 EXCEPT !.pc = "done", !.status = 400, !.message = v]
                       ELSE [r0 EXCEPT !.pc = "connect", !.inc = NumValue(q)]]
    /\ UNCHANGED <<scores, history, rowLock, lbCache, userCache, redisUp, gt, rd,
                   channel, wsOut, scores0, probe, hubVars>>

\* const client = await pool.connect(): outside the try, a failure goes
\* straight to the controller's catch (500)
Connect(c) ==
    /\ call[c].pc = "connect"
    /\ \E ok \in BOOLEAN :
          call' = [call EXCEPT ![c] =
                      IF ok
                      THEN [@ EXCEPT !.pc = "begin", !.client = "out"]
                      ELSE Finish(c, 500)]
    /\ UNCHANGED <<scores, history, rowLock, lbCache, userCache, redisUp, gt, rd,
                   channel, wsOut, scores0, probe, hubVars>>

\* BEGIN (h0: the length of the audit history when the transaction opens)
Begin(c) ==
    /\ call[c].pc = "begin"
    /\ call' = [call EXCEPT ![c] = [@ EXCEPT !.pc = "select", !.tx = "open",
                                             !.h0 = Len(history)]]
    /\ UNCHANGED <<scores, history, rowLock, lbCache, userCache, redisUp, gt, rd,
                   channel, wsOut, scores0, probe, hubVars>>

\* SELECT score FROM scores WHERE user_id = $1 FOR UPDATE: waits while
\* another transaction holds the row's lock, then locks and reads the
\* committed row; with no committed row it returns nothing and locks nothing
SelectForUpdate(c) ==
    LET u == call[c].userId IN
    /\ call[c].pc = "select"
    /\ IF HasRow(scores, u)
       THEN /\ rowLock[u] \in {0, c}
            /\ rowLock' = [rowLock EXCEPT ![u] = c]
       ELSE UNCHANGED rowLock
    /\ call' = [call EXCEPT ![c] =
                  [@ EXCEPT !.pc = "upsert",
                            !.cur = ScoreOrZero(scores, u),
                            !.new = NewScore(ScoreOrZero(scores, u), call[c].inc)]]
    /\ UNCHANGED <<scores, history, lbCache, userCache, redisUp, gt, rd,
                   channel, wsOut, scores0, probe, hubVars>>

\* the statement runs outside the transaction: its write is visible at once
UpsertScoreAutocommit(c) ==
    LET u == call[c].userId IN
    /\ call[c].pc = "upsert"
    /\ rowLock[u] \in {0, c}
    /\ scores' = UpsertRow(scores, u, call[c].new)
    /\ call' = [call EXCEPT ![c].pc = "history"]
    /\ UNCHANGED <<history, rowLock, lbCache, userCache, redisUp, gt, rd,
                   channel, wsOut, scores0, probe, hubVars>>

\* INSERT INTO scores ... ON CONFLICT (user_id) DO UPDATE: waits for a
\* transaction that locked the row or inserted the key and has not ended;
\* the write stays pending until COMMIT
UpsertScore(c) ==
    LET u == call[c].userId IN
    /\ call[c].pc = "upsert"
    /\ rowLock[u] \in {0, c}
    /\ rowLock' = [rowLock EXCEPT ![u] = c]
    /\ call' = [call EXCEPT ![c] =
                  [@ EXCEPT !.pc = "history", !.staged = @ \cup {"score"}]]
    /\ UNCHANGED <<scores, history, lbCache, userCache, redisUp, gt, rd,
                   channel, wsOut, scores0, probe, hubVars>>

\* INSERT INTO score_history ...
InsertHistory(c) ==
    /\ call[c].pc = "history"
    /\ call' = [call EXCEPT ![c] =
                  [@ EXCEPT !.pc = "commit", !.staged = @ \cup {"history"}]]
    /\ UNCHANGED <<scores, history, rowLock, lbCache, userCache, redisUp, gt, rd,
                   channel, wsOut, scores0, probe, hubVars>>

\* the tables after the pending writes of c are made durable
CommittedScores(c) ==
    IF "score" \in call[c].staged
    THEN UpsertRow(scores, call[c].userId, call[c].new)
    ELSE scores

CommittedHistory(c) ==
    IF "history" \in call[c].staged
    THEN Append(history, HistoryRow(call[c].userId, call[c].inc, call[c].cur,
                                    call[c].new, call[c].actionId))
    ELSE history

\* the locks outlive the transaction
ReleaseLocksNone(c) == rowLock

ReleaseLocks(c) == [u \in Users |-> IF rowLock[u] = c THEN 0 ELSE rowLock[u]]

\* COMMIT: the pending writes become visible together, the locks go
Commit(c) ==
    /\ call[c].pc = "commit"
    /\ scores' = CommittedScores(c)
    /\ history' = CommittedHistory(c)
    /\ rowLock' = ReleaseLocks(c)
    /\ call' = [call EXCEPT ![c] = [@ EXCEPT !.pc = "invUser", !.staged = {},
                                             !.tx = "committed"]]
    /\ UNCHANGED <<lbCache, userCache, redisUp, gt, rd, channel, wsOut, scores0, probe, hubVars>>

TxnStatements == {"begin", "select", "upsert", "history", "commit"}

\* a statement of the transaction is answered with an error (timeout, lost
\* connection, constraint): control goes to the catch block
StatementFails(c) ==
    /\ call[c].pc \in TxnStatements
    /\ call' = [call EXCEPT ![c].pc = "catch"]
    /\ UNCHANGED <<scores, history, rowLock, lbCache, userCache, redisUp, gt, rd,
                   channel, wsOut, scores0, probe, hubVars>>

\* the client goes back to the pool only when the catch block ran through
ReleaseAfterCatch(cl) ==
    IF cl.rollback = "failed"
    THEN cl
    ELSE [cl EXCEPT !.client = "back", !.releases = @ + 1]

\* finally { client.release() }: runs when the try block returned and when
\* the catch block threw, whichever statement it threw from
Finally(cl) == [cl EXCEPT !.client = "back", !.releases = @ + 1]

\* catch: ROLLBACK (the store drops the pending writes and the locks
\* whether or not the statement is answered; when it is not, its error is
\* the one thrown), finally client.release(), the error reaches the
\* controller's catch: 500
Rollback(c) ==
    /\ call[c].pc = "catch"
    /\ rowLock' = ReleaseLocks(c)
    /\ \E ok \in BOOLEAN :
          call' = [call EXCEPT ![c] =
                      Finally([Finish(c, 500) EXCEPT
                                  !.staged = {}, !.tx = "rolledback",
                                  !.rollback = IF ok THEN "ok" ELSE "failed"])]
    /\ UNCHANGED <<scores, history, lbCache, userCache, redisUp, gt, rd,
                   channel, wsOut, scores0, probe, hubVars>>

\* invalidateUserScoreCache: del user_score:<id>; an error is logged only
InvalidateUserScoreCache(c) ==
    /\ call[c].pc = "invUser"
    /\ userCache' = IF redisUp
                    THEN [userCache EXCEPT ![call[c].userId] = Null]
                    ELSE userCache
    /\ call' = [call EXCEPT ![c].pc = "invLb"]
    /\ UNCHANGED <<scores, history, rowLock, lbCache, redisUp, gt, rd,
                   channel, wsOut, scores0, probe, hubVars>>

\* invalidateLeaderboardCache: del leaderboard:top10; an error is logged
\* only.  updateScore returns {previousScore, newScore} through its finally.
InvalidateLeaderboardCache(c) ==
    /\ call[c].pc = "invLb"
    /\ lbCache' = IF redisUp THEN Null ELSE lbCache
    /\ call' = [call EXCEPT ![c] = Finally([@ EXCEPT !.pc = "rank"])]
    /\ UNCHANGED <<scores, history, rowLock, userCache, redisUp, gt, rd,
                   channel, wsOut, scores0, probe, hubVars>>

\* const rank = await getUserRank(userId): a store error is rethrown (500)
GetRank(c) ==
    /\ call[c].pc = "rank"
    /\ \E ok \in BOOLEAN :
          call' = [call EXCEPT ![c] =
                      IF ok
                      THEN [@ EXCEPT !.pc = "top10",
                                     !.rank = getUserRank(scores, call[c].userId)]
                      ELSE Finish(c, 500)]
    /\ UNCHANGED <<scores, history, rowLock, lbCache, userCache, redisUp, gt, rd,
                   channel, wsOut, scores0, probe, hubVars>>

\* getTopUsers(limit, offset) begins: the cache is consulted for offset 0
StartGt(limit, offset) ==
    [pc |-> IF offset = 0 THEN "get" ELSE "query", limit |-> limit,
     offset |-> offset, board |-> <<>>, cause |-> ""]

\* const inTop10 = await isUserInTop10(userId): false on a store error.
\* In the top 10 broadcastLeaderboardUpdate starts (getLeaderboard(10, 0, ..)),
\* otherwise the response is sent.
CheckTop10(c) ==
    /\ call[c].pc = "top10"
    /\ \E ok \in BOOLEAN, sorted \in OrderByScoreDesc(scores) :
          LET in10 == ok /\ InTop10(sorted, call[c].userId)
          IN  /\ call' = [call EXCEPT ![c] =
                            IF in10
                            THEN [@ EXCEPT !.pc = "bcast", !.inTop10 = TRUE]
                            ELSE Finish(c, 200)]
              /\ gt' = IF in10 THEN [gt EXCEPT ![c] = StartGt(Top10, 0)] ELSE gt
    /\ UNCHANGED <<scores, history, rowLock, lbCache, userCache, redisUp, rd,
                   channel, wsOut, scores0, probe, hubVars>>

(* ------------------------------ getTopUsers ----------------------------- *)

GtThrow(g, why) == [g EXCEPT !.pc = "err", !.cause = why]

\* await redisClient.get(LEADERBOARD_CACHE_KEY): a hit returns the slice,
\* a miss goes on to the store, an unreachable cache throws
GtAfterGet(g) ==
    IF ~redisUp
    THEN GtThrow(g, "cache")
    ELSE IF lbCache # Null
         THEN [g EXCEPT !.pc = "ret", !.board = Slice(lbCache[1], g.limit)]
         ELSE [g EXCEPT !.pc = "query"]

GtGet(p) ==
    /\ gt[p].pc = "get"
    /\ gt' = [gt EXCEPT ![p] = GtAfterGet(gt[p])]
    /\ UNCHANGED <<scores, history, rowLock, lbCache, userCache, redisUp, call, rd,
                   channel, wsOut, scores0, probe, hubVars>>

\* await pool.query(... ORDER BY s.score DESC LIMIT $1 OFFSET $2)
GtQuery(p) ==
    /\ gt[p].pc = "query"
    /\ \E ok \in BOOLEAN, sorted \in OrderByScoreDesc(scores) :
          gt' = [gt EXCEPT ![p] =
                  IF ~ok \/ ~LimitOffsetAccepted(gt[p].limit, gt[p].offset)
                  THEN GtThrow(gt[p], "store")
                  ELSE [@ EXCEPT !.pc = IF gt[p].offset = 0 THEN "set" ELSE "ret",
                                 !.board = LeaderboardRows(sorted, gt[p].limit,
                                                           gt[p].offset)]]
    /\ UNCHANGED <<scores, history, rowLock, lbCache, userCache, redisUp, call, rd,
                   channel, wsOut, scores0, probe, hubVars>>

\* await redisClient.setEx(LEADERBOARD_CACHE_KEY, TTL, JSON.stringify(leaderboard))
GtSet(p) ==
    /\ gt[p].pc = "set"
    /\ gt' = [gt EXCEPT ![p] =
                IF redisUp THEN [@ EXCEPT !.pc = "ret"] ELSE GtThrow(gt[p], "cache")]
    /\ lbCache' = IF redisUp THEN <<gt[p].board>> ELSE lbCache
    /\ UNCHANGED <<scores, history, rowLock, userCache, redisUp, call, rd,
                   channel, wsOut, scores0, probe, hubVars>>

(* ---------------- broadcastLeaderboardUpdate / publish ------------------ *)

\* the userRank query of getLeaderboard: COUNT(*) + 1 WHERE score >
\* (SELECT COALESCE(score, 0) FROM scores WHERE user_id = $1); without a row
\* the subquery is still NULL
LeaderboardUserRank(tbl, u) ==
    IF HasRow(tbl, u)
    THEN CountGreater(tbl, SelectScore(tbl, u)[1]) + 1
    ELSE 1

ScoreboardUpdate(board, u, userRank) ==
    [type |-> "scoreboard_update", leaderboard |-> board,
     updated_user |-> IF userRank # Null THEN <<u, userRank[1]>> ELSE Null]

\* the instance that serves the mutation calls
Handler(c) == 1

\* a send that reached the open sockets of every instance
SendToEveryInstance(i, m) ==
    [k \in Conns |->
        IF conn[k].readyState = "OPEN"
        THEN [conn[k] EXCEPT !.inbox = Append(@, m)]
        ELSE conn[k]]

\* wss.clients.forEach(client => client.readyState === OPEN && client.send(m))
\* on instance i: every accepted socket of the instance that is open gets m,
\* registered in the Map or not
SendToClients(i, m) ==
    [k \in Conns |->
        IF conn[k].inst = i /\ conn[k].readyState = "OPEN"
        THEN [conn[k] EXCEPT !.inbox = Append(@, m)]
        ELSE conn[k]]

\* getLeaderboard after getTopUsers returned: getTotalUsers and the userRank
\* query (an error leaves userRank null), then the message goes to every
\* open client.  When getTopUsers threw, the error is logged and nothing is
\* sent.
BroadcastSend(c) ==
    /\ call[c].pc = "bcast"
    /\ gt[c].pc \in {"ret", "err"}
    /\ \E ok \in BOOLEAN :
          LET userRank == IF ok
                          THEN <<LeaderboardUserRank(scores, call[c].userId)>>
                          ELSE Null
              m == ScoreboardUpdate(gt[c].board, call[c].userId, userRank)
          IN  /\ wsOut' = IF gt[c].pc = "ret" THEN Append(wsOut, m) ELSE wsOut
              /\ conn' = IF gt[c].pc = "ret"
                         THEN SendToClients(Handler(c), m)
                         ELSE conn
    /\ gt' = [gt EXCEPT ![c] = IdleGt]
    /\ call' = [call EXCEPT ![c].pc = "publish"]
    /\ UNCHANGED <<scores, history, rowLock, lbCache, userCache, redisUp, rd,
                   channel, scores0, probe, connections, sub, relay>>

\* nothing is published
PublishDropped(c) ==
    /\ call[c].pc = "publish"
    /\ call' = [call EXCEPT ![c] = Finish(c, 200)]
    /\ UNCHANGED <<scores, history, rowLock, lbCache, userCache, redisUp, gt, rd,
                   channel, wsOut, scores0, probe, hubVars>>

\* publishLeaderboardUpdate: an error is logged only; then res.json(200).
\* The message is {userId, timestamp}; no subscriber reads the timestamp.
Publish(c) ==
    /\ call[c].pc = "publish"
    /\ channel' = IF redisUp
                  THEN Append(channel, [userId |-> call[c].userId])
                  ELSE channel
    /\ call' = [call EXCEPT ![c] = Finish(c, 200)]
    /\ UNCHANGED <<scores, history, rowLock, lbCache, userCache, redisUp, gt, rd,
                   wsOut, scores0, probe, hubVars>>

(* ------------------------------ read calls ------------------------------ *)

\* limit of the zero-offset getTopUsers calls
LimitInputs == {1, Top10}

\* updateScore of call c has returned to the controller
Returned(c) == call[c].tx = "committed" /\ call[c].pc \notin {"invUser", "invLb"}

Max(S) == CHOOSE x \in S : \A y \in S : y <= x

\* per participant, the highest newScore an updateScore call has returned
\* so far (0 when none has)
ReturnedScore ==
    [u \in Users |->
        Max({0} \cup {call[c].new : c \in {d \in Calls : Returned(d)
                                                  /\ call[d].userId = u}})]

\* readers are numbered in the order they arrive
MayRead(r) ==
    /\ rd[r].pc = "idle"
    /\ IF r = MaxCalls + 1 THEN TRUE ELSE rd[r - 1].pc # "idle"

\* a caller invokes getTopUsers(limit, 0): the call runs up to its first
\* await, the cache lookup
StartTop(r) ==
    /\ MayRead(r)
    /\ \E limit \in LimitInputs :
          gt' = [gt EXCEPT ![r] = GtAfterGet(StartGt(limit, 0))]
    /\ rd' = [rd EXCEPT ![r] = [@ EXCEPT !.pc = "top", !.kind = "top",
                                         !.floor = ReturnedScore]]
    /\ UNCHANGED <<scores, history, rowLock, lbCache, userCache, redisUp, call,
                   channel, wsOut, scores0, probe, hubVars>>

RdThrow(r, why) == [rd[r] EXCEPT !.pc = "thrown", !.cause = why]

\* redisClient.get(user_score:<id>) after ensureConnected (whose failed
\* connect is logged only): a hit returns parseInt(cached)
ScoreAfterGet(r, u) ==
    IF ~redisUp
    THEN RdThrow(r, "cache")
    ELSE IF userCache[u] # Null
         THEN [rd[r] EXCEPT !.pc = "done", !.score = userCache[u][1]]
         ELSE [rd[r] EXCEPT !.pc = "us_query"]

\* a caller invokes getUserScore(u): the call runs up to its cache lookup
StartScore(r) ==
    /\ MayRead(r)
    /\ \E u \in Mutators :
          rd' = [rd EXCEPT ![r] =
                  [ScoreAfterGet(r, u) EXCEPT !.kind = "score", !.userId = u,
                                              !.floor = ReturnedScore]]
    /\ UNCHANGED <<scores, history, rowLock, lbCache, userCache, redisUp, call, gt,
                   channel, wsOut, scores0, probe, hubVars>>

\* SELECT score FROM scores WHERE user_id = $1
ScoreQuery(r) ==
    /\ rd[r].pc = "us_query"
    /\ \E ok \in BOOLEAN :
          rd' = [rd EXCEPT ![r] =
                  IF ok
                  THEN [@ EXCEPT !.pc = "us_set",
                                 !.score = ScoreOrZero(scores, rd[r].userId)]
                  ELSE RdThrow(r, "store")]
    /\ UNCHANGED <<scores, history, rowLock, lbCache, userCache, redisUp, call, gt,
                   channel, wsOut, scores0, probe, hubVars>>

\* redisClient.setEx(cacheKey, USER_SCORE_CACHE_TTL, score.toString())
ScoreSet(r) ==
    /\ rd[r].pc = "us_set"
    /\ rd' = [rd EXCEPT ![r] =
                IF redisUp THEN [@ EXCEPT !.pc = "done"] ELSE RdThrow(r, "cache")]
    /\ userCache' = IF redisUp
                    THEN [userCache EXCEPT ![rd[r].userId] = <<rd[r].score>>]
                    ELSE userCache
    /\ UNCHANGED <<scores, history, rowLock, lbCache, redisUp, call, gt,
                   channel, wsOut, scores0, probe, hubVars>>

(* ------------------------- leaderboardController ------------------------ *)

\* req.query.limit and req.query.offset of the requests ("": absent)
LimitStrings == {"", "0", "1", "2", "101", "abc"}

OffsetStrings == {"", "1", "2", "-1", "abc"}

\* the requests GET /leaderboard of a run
BoardReaders == (MaxCalls + 1)..(MaxCalls + BoardReads)

\* getLeaderboardData up to its first await: the parameters are parsed, a
\* limit below 1 or above 100 is answered 400, otherwise getLeaderboard
\* calls getTopUsers(limit, offset), which looks in the cache when
\* offset === 0
BoardRequest(r) ==
    /\ MayRead(r)
    /\ \E ql \in LimitStrings, qo \in OffsetStrings :
          LET limit == ParseInt(OrDefault(ql, "10"))
              offset == ParseInt(OrDefault(qo, "0"))
              r0 == [rd[r] EXCEPT !.kind = "board", !.query = <<ql, qo>>]
          IN  IF JsLess(limit, 1) \/ JsGreater(limit, 100)
              THEN /\ rd' = [rd EXCEPT ![r] = [r0 EXCEPT !.pc = "done", !.status = 400]]
                   /\ UNCHANGED gt
              ELSE /\ rd' = [rd EXCEPT ![r] = [r0 EXCEPT !.pc = "board"]]
                   /\ gt' = [gt EXCEPT ![r] =
                               IF offset = 0
                               THEN GtAfterGet(StartGt(limit, offset))
                               ELSE StartGt(limit, offset)]
    /\ UNCHANGED <<scores, history, rowLock, lbCache, userCache, redisUp, call,
                   channel, wsOut, scores0, probe, hubVars>>

\* getTopUsers returned or threw: getTotalUsers and the userRank query
\* swallow their errors, the listing is answered with 200; the error of
\* getTopUsers reaches the controller's catch: 500
BoardRespond(r) ==
    /\ rd[r].pc = "board"
    /\ gt[r].pc \in {"ret", "err"}
    /\ rd' = [rd EXCEPT ![r] =
                [@ EXCEPT !.pc = "done",
                          !.status = IF gt[r].pc = "ret" THEN 200 ELSE 500,
                          !.cause = gt[r].cause]]
    /\ UNCHANGED <<scores, history, rowLock, lbCache, userCache, redisUp, call, gt,
                   channel, wsOut, scores0, probe, hubVars>>

(* ----------------------------- environment ------------------------------ *)

\* the cache server becomes unreachable
RedisFails ==
    /\ redisUp
    /\ redisUp' = FALSE
    /\ UNCHANGED <<scores, history, rowLock, lbCache, userCache, call, gt, rd,
                   channel, wsOut, scores0, probe, hubVars>>

\* the 30 seconds of leaderboard:top10 are over
ExpireLeaderboard ==
    /\ lbCache # Null
    /\ lbCache' = Null
    /\ UNCHANGED <<scores, history, rowLock, userCache, redisUp, call, gt, rd,
                   channel, wsOut, scores0, probe, hubVars>>

\* the 300 seconds of a user_score key are over
ExpireUserScore(u) ==
    /\ userCache[u] # Null
    /\ userCache' = [userCache EXCEPT ![u] = Null]
    /\ UNCHANGED <<scores, history, rowLock, lbCache, redisUp, call, gt, rd,
                   channel, wsOut, scores0, probe, hubVars>>

(* --------------------- websocketService: connections --------------------- *)

\* connections.has(userId) || connections.set(userId, new Set());
\* connections.get(userId).add(ws)
MapAdd(map, u, k) ==
    [map EXCEPT ![u] = IF @ = Null THEN <<{k}>> ELSE <<@[1] \cup {k}>>]

\* the 'close' listener: delete ws from the user's set, delete the key when
\* the set is empty
MapDelete(map, u, k) ==
    IF map[u] = Null
    THEN map
    ELSE [map EXCEPT ![u] = IF @[1] \ {k} = {} THEN Null ELSE <<@[1] \ {k}>>]

\* connections are numbered in the order they arrive
MayConnect(k) ==
    /\ conn[k].pc = "none"
    /\ IF k = MaxCalls + MaxReads + 1 THEN TRUE ELSE conn[k - 1].pc # "none"

\* handleConnection on instance i up to its first await: the socket is accepted (it is in
\* wss.clients and open); without a token or with one that does not verify
\* it is closed with 1008 at once; otherwise it is added to the Map and
\* getLeaderboard(10, 0, userId) starts with the cache lookup of getTopUsers
Handshake(k, i) ==
    /\ MayConnect(k)
    /\ \E token \in TokenInputs :
          LET ws == [conn[k] EXCEPT !.inst = i, !.token = token,
                                    !.readyState = "OPEN"]
          IN  IF token = "" \/ Verify(token) = Null
              THEN /\ conn' = [conn EXCEPT ![k] =
                                 [ws EXCEPT !.pc = "refused", !.readyState = "CLOSING",
                                            !.code = 1008]]
                   /\ UNCHANGED <<connections, gt>>
              ELSE /\ conn' = [conn EXCEPT ![k] =
                                 [ws EXCEPT !.pc = "attach", !.userId = Verify(token)[1]]]
                   /\ connections' = [connections EXCEPT ![i] =
                                         MapAdd(@, Verify(token)[1], k)]
                   /\ gt' = [gt EXCEPT ![k] = GtAfterGet(StartGt(Top10, 0))]
    /\ UNCHANGED <<scores, history, rowLock, lbCache, userCache, redisUp, call, rd,
                   channel, wsOut, scores0, probe, sub, relay>>

LeaderboardMessage(board, userRank) ==
    [type |-> "leaderboard", leaderboard |-> board, userRank |-> userRank]

\* getLeaderboard returned or threw: the snapshot is sent (ws.send delivers
\* on an open socket only), a thrown error is logged; then the 'message',
\* 'close', 'error' and 'pong' listeners are attached and the heartbeat
\* timer starts
SendInitial(k) ==
    /\ conn[k].pc = "attach"
    /\ gt[k].pc \in {"ret", "err"}
    /\ \E ok \in BOOLEAN :
          LET userRank == IF ok
                          THEN <<LeaderboardUserRank(scores, conn[k].userId)>>
                          ELSE Null
              m == LeaderboardMessage(gt[k].board, userRank)
              sent == gt[k].pc = "ret" /\ conn[k].readyState = "OPEN"
          IN  conn' = [conn EXCEPT ![k] =
                          [@ EXCEPT !.pc = "live", !.heartbeat = "on",
                                    !.inbox = IF sent THEN Append(@, m) ELSE @]]
    /\ gt' = [gt EXCEPT ![k] = IdleGt]
    /\ UNCHANGED <<scores, history, rowLock, lbCache, userCache, redisUp, call, rd,
                   channel, wsOut, scores0, probe, connections, sub, relay>>

\* the client disconnects or the transport fails: the socket is closed and
\* 'close' is emitted; the listener that removes the socket from the Map
\* runs if handleConnection has attached it
ClientClose(k) ==
    /\ conn[k].pc \in {"attach", "live"}
    /\ conn[k].readyState = "OPEN"
    /\ conn' = [conn EXCEPT ![k].readyState = "CLOSED"]
    /\ connections' = IF conn[k].pc = "live"
                      THEN [connections EXCEPT ![conn[k].inst] =
                               MapDelete(@, conn[k].userId, k)]
                      ELSE connections
    /\ UNCHANGED <<scores, history, rowLock, lbCache, userCache, redisUp, call, gt,
                   rd, channel, wsOut, scores0, probe, sub, relay>>

\* the client sends {type: 'subscribe'} on its open socket (subs counts the
\* messages sent): the 'message' listener, once handleConnection has
\* attached it, answers with 'subscribed'; a 'message' event emitted before
\* that has no listener and is dropped
ClientSubscribe(k) ==
    /\ conn[k].pc \in {"attach", "live"}
    /\ conn[k].readyState = "OPEN"
    /\ conn[k].subs < MaxSubs
    /\ conn' = [conn EXCEPT ![k] =
                  [@ EXCEPT !.subs = @ + 1,
                            !.inbox = IF conn[k].pc = "live"
                                      THEN Append(@, [type |-> "subscribed",
                                                      channel |-> "leaderboard"])
                                      ELSE @]]
    /\ UNCHANGED <<scores, history, rowLock, lbCache, userCache, redisUp, call, gt,
                   rd, channel, wsOut, scores0, probe, connections, sub, relay>>

\* the client stops answering pings; its transport stays up
ClientStalls(k) ==
    /\ conn[k].pc \in {"attach", "live"}
    /\ conn[k].readyState = "OPEN"
    /\ conn[k].answering
    /\ conn' = [conn EXCEPT ![k].answering = FALSE]
    /\ UNCHANGED <<scores, history, rowLock, lbCache, userCache, redisUp, call, gt,
                   rd, channel, wsOut, scores0, probe, connections, sub, relay>>

\* a tick of the heartbeat timer: ping an open socket (pings counts the
\* pings without a pong, up to MaxPings), clear the timer otherwise
Heartbeat(k) ==
    /\ conn[k].pc = "live"
    /\ conn[k].heartbeat = "on"
    /\ conn' = IF conn[k].readyState = "OPEN"
               THEN [conn EXCEPT ![k].pings = Min(@ + 1, MaxPings)]
               ELSE [conn EXCEPT ![k].heartbeat = "off"]
    /\ UNCHANGED <<scores, history, rowLock, lbCache, userCache, redisUp, call, gt,
                   rd, channel, wsOut, scores0, probe, connections, sub, relay>>

\* the client answers the pings; the 'pong' listener does nothing
Pong(k) ==
    /\ conn[k].pc = "live"
    /\ conn[k].readyState = "OPEN"
    /\ conn[k].answering
    /\ conn[k].pings > 0
    /\ conn' = [conn EXCEPT ![k].pings = 0]
    /\ UNCHANGED <<scores, history, rowLock, lbCache, userCache, redisUp, call, gt,
                   rd, channel, wsOut, scores0, probe, connections, sub, relay>>

\* getConnectionStats of instance i: <<totalConnections, uniqueUsers>>
RECURSIVE SumSizes(_, _)
SumSizes(map, S) ==
    IF S = {}
    THEN 0
    ELSE LET u == CHOOSE x \in S : TRUE
         IN  (IF map[u] = Null THEN 0 ELSE Cardinality(map[u][1]))
                + SumSizes(map, S \ {u})

getConnectionStats(i) ==
    [totalConnections |-> SumSizes(connections[i], Users),
     uniqueUsers |-> Cardinality({u \in Users : connections[i][u] # Null}),
     maxConnections |-> WS_MAX_CONNECTIONS]

(* ----------------------- websocketService: relay ------------------------ *)

\* setupRedisSubscriber: connect and subscribe; an error is logged and the
\* instance runs without a subscriber.  A subscriber gets the messages
\* published from now on.
SubscriberUp(i) ==
    /\ sub[i].state = "starting"
    /\ \E ok \in BOOLEAN :
          sub' = [sub EXCEPT ![i] =
                    IF ok /\ redisUp
                    THEN [state |-> "on", read |-> Len(channel)]
                    ELSE [state |-> "failed", read |-> 0]]
    /\ UNCHANGED <<scores, history, rowLock, lbCache, userCache, redisUp, call, gt,
                   rd, channel, wsOut, scores0, probe, conn, connections, relay>>

\* messageHandler of instance i gets the next message of the channel and
\* calls broadcastLeaderboardUpdate(data.userId), which runs up to the cache
\* lookup of getTopUsers
RelayDeliver(i) ==
    /\ sub[i].state = "on"
    /\ redisUp
    /\ sub[i].read < Min(Len(channel), MaxMsgs)
    /\ LET m == sub[i].read + 1
           t == RelayId(i, m)
       IN  /\ relay' = [relay EXCEPT ![t] =
                           [pc |-> "bcast", inst |-> i, userId |-> channel[m].userId]]
           /\ gt' = [gt EXCEPT ![t] = GtAfterGet(StartGt(Top10, 0))]
    /\ sub' = [sub EXCEPT ![i].read = @ + 1]
    /\ UNCHANGED <<scores, history, rowLock, lbCache, userCache, redisUp, call, rd,
                   channel, wsOut, scores0, probe, conn, connections>>

\* the broadcast of relay t after getTopUsers returned or threw: as the
\* direct push, to the open clients of its instance
RelaySend(t) ==
    /\ relay[t].pc = "bcast"
    /\ gt[t].pc \in {"ret", "err"}
    /\ \E ok \in BOOLEAN :
          LET userRank == IF ok
                          THEN <<LeaderboardUserRank(scores, relay[t].userId)>>
                          ELSE Null
              m == ScoreboardUpdate(gt[t].board, relay[t].userId, userRank)
          IN  conn' = IF gt[t].pc = "ret"
                      THEN SendToClients(relay[t].inst, m)
                      ELSE conn
    /\ gt' = [gt EXCEPT ![t] = IdleGt]
    /\ relay' = [relay EXCEPT ![t].pc = "done"]
    /\ UNCHANGED <<scores, history, rowLock, lbCache, userCache, redisUp, call, rd,
                   channel, wsOut, scores0, probe, connections, sub>>

\* a process outside the modelled instances publishes {userId, timestamp}
\* after a mutation it served
ForeignPublish ==
    /\ redisUp
    /\ Len(channel) < MaxMsgs
    /\ \E u \in Mutators : channel' = Append(channel, [userId |-> u])
    /\ UNCHANGED <<scores, history, rowLock, lbCache, userCache, redisUp, call, gt,
                   rd, wsOut, scores0, probe, hubVars>>

(* ---------------------------- specifications ---------------------------- *)

\* one step of mutation call c
CallStep(c) ==
    \/ Request(c)
    \/ Connect(c)
    \/ Begin(c)
    \/ SelectForUpdate(c)
    \/ UpsertScore(c)
    \/ InsertHistory(c)
    \/ Commit(c)
    \/ StatementFails(c)
    \/ Rollback(c)
    \/ InvalidateUserScoreCache(c)
    \/ InvalidateLeaderboardCache(c)
    \/ GetRank(c)
    \/ CheckTop10(c)
    \/ GtGet(c)
    \/ GtQuery(c)
    \/ GtSet(c)
    \/ BroadcastSend(c)
    \/ Publish(c)

\* one step of read call r
ReadStep(r) ==
    \/ StartTop(r)
    \/ GtQuery(r)
    \/ GtSet(r)
    \/ StartScore(r)
    \/ ScoreQuery(r)
    \/ ScoreSet(r)

\* the mutation pipeline: MaxCalls concurrent mutation calls
Next ==
    \/ \E c \in Calls : CallStep(c)
    \/ RedisFails
    \/ ExpireLeaderboard

Spec == Init /\ [][Next]_vars

\* the statements of call c's transaction that the store answers in time
TxnStep(c) ==
    \/ Connect(c)
    \/ Begin(c)
    \/ SelectForUpdate(c)
    \/ UpsertScore(c)
    \/ InsertHistory(c)
    \/ Commit(c)
    \/ Rollback(c)

\* the store answers every statement that waits for nothing (with a result
\* or, through StatementFails, with an error)
SpecFair == Spec /\ \A c \in Calls : WF_vars(TxnStep(c))

\* the caches: CacheCalls mutation calls next to CacheReads read calls
NextCache ==
    \/ \E c \in 1..CacheCalls : CallStep(c)
    \/ \E r \in (MaxCalls + 1)..(MaxCalls + CacheReads) : ReadStep(r)
    \/ RedisFails
    \/ ExpireLeaderboard
    \/ \E u \in Users : ExpireUserScore(u)

SpecCache == Init /\ [][NextCache]_vars

\* the listing reads of one cache lifetime: MaxReads getTopUsers(limit, 0)
\* calls, no mutation, no expiry of leaderboard:top10
NextReads ==
    \/ \E r \in Readers : StartTop(r) \/ GtQuery(r) \/ GtSet(r)
    \/ RedisFails

SpecReads == Init /\ [][NextReads]_vars

\* one step of a GET /leaderboard request
BoardStep(r) ==
    \/ BoardRequest(r)
    \/ GtQuery(r)
    \/ GtSet(r)
    \/ BoardRespond(r)

\* the leaderboard endpoint: BoardReads requests, no mutation, within one
\* lifetime of leaderboard:top10
NextBoard ==
    \/ \E r \in BoardReaders : BoardStep(r)
    \/ RedisFails

SpecBoard == Init /\ [][NextBoard]_vars

\* one step of handleConnection for connection k, opened against instance i
AttachStep(k, i) ==
    \/ Handshake(k, i)
    \/ GtQuery(k)
    \/ GtSet(k)
    \/ SendInitial(k)

\* one step of connection k, opened against instance i
ConnStep(k, i) ==
    \/ AttachStep(k, i)
    \/ ClientClose(k)

\* one step of the heartbeat of connection k or of its client's answers
BeatStep(k) ==
    \/ ClientStalls(k)
    \/ Heartbeat(k)
    \/ Pong(k)

\* one step of the subscriber of instance i or of a broadcast it started
RelayStep(i) ==
    \/ SubscriberUp(i)
    \/ RelayDeliver(i)
    \/ \E m \in 1..MaxMsgs :
          GtQuery(RelayId(i, m)) \/ GtSet(RelayId(i, m)) \/ RelaySend(RelayId(i, m))

\* the connections of one instance (the first), with its broadcasts for the
\* messages other processes publish
NextConn ==
    \/ \E k \in Conns : ConnStep(k, 1)
    \/ RelayStep(1)
    \/ ForeignPublish
    \/ RedisFails

SpecConn == Init /\ [][NextConn]_vars

\* the same, with the clients sending 'subscribe' messages
NextSub ==
    \/ NextConn
    \/ \E k \in Conns : ClientSubscribe(k)

SpecSub == Init /\ [][NextSub]_vars

\* ten participants with scores no mutation call of a run can reach
Crowd ==
    LET ids == <<"b01", "b02", "b03", "b04", "b05", "b06", "b07", "b08", "b09", "b10">>
    IN  [i \in 1..Len(ids) |-> Row(ids[i], 5000 + i)]

\* the scores tables of the hub runs: three participants, all in the top
\* 10, or u1 behind ten others
HubTables ==
    {<<Row("u1", 100), Row("u2", 120), Row("u3", 150)>>,
     Crowd \o <<Row("u1", 100)>>}

\* connection k was opened against instance 1, 2, .. in turn
HubInstance(k) == ((k - 1) % MaxInstances) + 1

\* a connection that handleConnection has attached for participant u on
\* instance i: it has received its snapshot of the table tbl
AttachedConn(i, u, tbl) ==
    LET sorted == CHOOSE o \in OrderByScoreDesc(tbl) : TRUE
    IN  [IdleConn EXCEPT
            !.pc = "live", !.inst = i, !.token = u, !.userId = u,
            !.readyState = "OPEN", !.heartbeat = "on",
            !.inbox = <<LeaderboardMessage(LeaderboardRows(sorted, Top10, 0),
                                           <<LeaderboardUserRank(tbl, u)>>)>>]

\* the Map of instance i when the connections cs are attached
MapOf(cs, i) ==
    [u \in Users |->
        LET ks == {k \in Conns : cs[k].inst = i /\ cs[k].userId = u}
        IN  IF ks = {} THEN Null ELSE <<ks>>]

\* the service some time after its start: every connection has been
\* attached, one per instance in turn, for u1 or u3, and has its snapshot;
\* the cached listing has expired; no mutation call has arrived yet
InitHub ==
    /\ scores \in HubTables
    /\ probe = NoProbe
    /\ scores0 = scores
    /\ history = <<>>
    /\ rowLock = [u \in Users |-> 0]
    /\ lbCache = Null
    /\ userCache = [u \in Users |-> Null]
    /\ redisUp = TRUE
    /\ call = [c \in Calls |-> IdleCall]
    /\ gt = [p \in Procs |-> IdleGt]
    /\ rd = [r \in Readers |-> IdleRead]
    /\ channel = <<>>
    /\ wsOut = <<>>
    /\ \E who \in [Conns -> {"u1", "u3"}] :
          conn = [k \in Conns |-> AttachedConn(HubInstance(k), who[k], scores)]
    /\ connections = [i \in Instances |-> MapOf(conn, i)]
    /\ sub = [i \in Instances |-> [state |-> "starting", read |-> 0]]
    /\ relay = [t \in Relays |-> IdleRelay]

\* the hub: HubCalls mutation calls served by the first instance and the
\* subscribers of all instances, with the connections attached
NextHub ==
    \/ \E c \in 1..HubCalls : CallStep(c)
    \/ \E i \in Instances : RelayStep(i)
    \/ RedisFails

SpecHub == InitHub /\ [][NextHub]_vars

\* the awaited calls of the handlers return: every mutation call and every
\* subscriber keeps taking its steps
SpecHubFair ==
    /\ SpecHub
    /\ \A c \in 1..HubCalls : WF_vars(CallStep(c))
    /\ \A i \in Instances : WF_vars(RelayStep(i))

\* the service with its connections attached for u3, three participants in
\* the store, before the subscribers are up
InitConverge ==
    /\ InitHub
    /\ Len(scores) = 3
    /\ \A k \in Conns : conn[k].userId = "u3"

\* MaxCalls concurrent mutation calls with their direct pushes
NextConverge ==
    \/ \E c \in Calls : CallStep(c)
    \/ RedisFails

SpecConverge == InitConverge /\ [][NextConverge]_vars

\* the connections of one instance with their heartbeats
NextBeat ==
    \/ \E k \in Conns : ConnStep(k, 1)
    \/ \E k \in Conns : BeatStep(k)
    \/ RedisFails

\* the timers fire and the awaited calls of handleConnection return; the
\* clients are free to stay or go
SpecBeat ==
    /\ Init
    /\ [][NextBeat]_vars
    /\ \A k \in Conns :
          /\ WF_vars(Heartbeat(k))
          /\ WF_vars(GtQuery(k) \/ GtSet(k) \/ SendInitial(k))

(* --------------------- the pure functions, applied ---------------------- *)

\* request bodies of the validation runs
ProbeIncrements ==
    {<<-10, 1>>, <<0, 1>>, <<1, 1>>, <<3, 2>>, <<500, 1>>, <<1000, 1>>,
     <<1001, 1>>, <<2001, 2>>}

ProbeTimestamps(now) ==
    {<<>>, <<0>>, <<now - maxTimeDiff - 1>>, <<now - maxTimeDiff>>, <<now>>,
     <<now + maxTimeDiff>>, <<now + maxTimeDiff + 1>>}

InitValidate ==
    /\ scores = <<>>
    /\ \E now \in NowInputs :
          probe \in [fn : {"validate"}, scoreIncrement : ProbeIncrements,
                     timestamp : ProbeTimestamps(now), now : {now}, out : {"pending"}]
    /\ InitRest

\* the controller validates the request body
Validate ==
    /\ probe.fn = "validate"
    /\ probe.out = "pending"
    /\ probe' = [probe EXCEPT !.out = validateScoreUpdateRequest(
                                          probe.scoreIncrement, probe.timestamp,
                                          probe.now)]
    /\ UNCHANGED <<scores, history, rowLock, lbCache, userCache, redisUp, call, gt,
                   rd, channel, wsOut, scores0, hubVars>>

SpecValidate == InitValidate /\ [][Validate]_vars

\* the scores a participant of the query runs can have (0: no row)
QueryScores == {0, 100, 150, 200}

\* the tables of the query runs: rows in the order u3, u2, u1 or u1, u2, u3
QueryTables ==
    LET rowsOf(order, f) ==
            LET keep(u) == f[u] # 0
            IN  [i \in 1..Len(SelectSeq(order, keep)) |->
                    Row(SelectSeq(order, keep)[i], f[SelectSeq(order, keep)[i]])]
    IN  {rowsOf(order, f) : order \in {<<"u1", "u2", "u3">>, <<"u3", "u2", "u1">>},
                            f \in [Users -> QueryScores]}

\* the calls of the query runs: getUserRank(userId), or
\* getLeaderboard(limit, 0, userId) answered from the store
InitQuery ==
    /\ scores \in QueryTables
    /\ probe \in [fn : {"getUserRank"}, userId : Users, out : {0}]
                    \cup [fn : {"getLeaderboard"}, userId : Users,
                          limit : {2, Top10}, out : {Null}]
    /\ InitRest

\* getUserRank(userId) runs against the table
ApplyGetUserRank ==
    /\ probe.fn = "getUserRank"
    /\ probe.out = 0
    /\ probe' = [probe EXCEPT !.out = getUserRank(scores, probe.userId)]
    /\ UNCHANGED <<scores, history, rowLock, lbCache, userCache, redisUp, call, gt,
                   rd, channel, wsOut, scores0, hubVars>>

\* getLeaderboard(limit, 0, userId) runs against the table: the listing of
\* getTopUsers, getTotalUsers, and the userRank query (null on an error)
ApplyGetLeaderboard ==
    /\ probe.fn = "getLeaderboard"
    /\ probe.out = Null
    /\ \E ok \in BOOLEAN, sorted \in OrderByScoreDesc(scores) :
          probe' = [probe EXCEPT !.out =
                      <<[leaderboard |-> LeaderboardRows(sorted, probe.limit, 0),
                         userRank |-> IF ok
                                      THEN <<LeaderboardUserRank(scores, probe.userId)>>
                                      ELSE Null,
                         totalUsers |-> Len(scores)]>>]
    /\ UNCHANGED <<scores, history, rowLock, lbCache, userCache, redisUp, call, gt,
                   rd, channel, wsOut, scores0, hubVars>>

NextQuery ==
    \/ ApplyGetUserRank
    \/ ApplyGetLeaderboard

SpecQuery == InitQuery /\ [][NextQuery]_vars

(* ================================ claims ================================ *)

\* no other transaction on the participant of c is open, and none has
\* committed since c's transaction opened
Quiet(c) ==
    /\ \A d \in Calls \ {c} :
          call[d].userId = call[c].userId => call[d].tx # "open"
    /\ \A i \in (call[c].h0 + 1)..Len(history) :
          history[i].user_id # call[c].userId

\* call c commits in this step
Commits(c) == call[c].pc = "commit" /\ call'[c].tx = "committed"

\* C1: an updateScore(participant, i) that commits with no concurrent
\* mutation of the participant, whose committed score is s (0 without a
\* row), returns previousScore = s and newScore = s + i, leaves the stored
\* score s + i and appends exactly one audit entry (s, s + i, i).
C1_SoloUpdate ==
    [][\A c \in Calls :
          (Commits(c) /\ Quiet(c)) =>
              LET u == call[c].userId
                  s == ScoreOrZero(scores, u)
                  i == call[c].inc
              IN  /\ i \in MinIncrement..MaxIncrement
                  /\ call'[c].cur = s
                  /\ call'[c].new = s + i
                  /\ SelectScore(scores', u) = <<s + i>>
                  /\ history' = Append(history,
                         [user_id |-> u, score_increment |-> i, previous_score |-> s,
                          new_score |-> s + i, action_id |-> call[c].actionId])]_vars

\* a call committed 100 -> 1100 while the other call's transaction on
\* another participant was open, about to commit
C1_Witness ==
    \E c, d \in Calls :
        /\ c # d
        /\ call[c].tx = "committed" /\ call[c].cur = 100 /\ call[c].new = 1100
        /\ call[d].tx = "open" /\ call[d].userId # call[c].userId
        /\ call[d].pc = "commit"

\* the transactions on participant A that committed
CommittedOn(A) == {c \in Calls : call[c].userId = A /\ call[c].tx = "committed"}

\* C2: when N >= 2 updateScore(A, 1) calls have all committed (and no
\* other mutation of A ran), the stored score of A is its initial score + N,
\* whether or not A had a row at the start.
C2_NoLostUpdate ==
    \A A \in Mutators :
        (/\ Cardinality(CommittedOn(A)) >= 2
         /\ \A c \in Calls : call[c].userId = A => call[c].tx = "committed"
         /\ \A c \in CommittedOn(A) : call[c].inc = 1)
        => ScoreOrZero(scores, A) = ScoreOrZero(scores0, A) + Cardinality(CommittedOn(A))

\* the new_score of the last audit entry of u, the initial score without one
LastAudited(u) ==
    LET mine(h) == h.user_id = u
        rows == SelectSeq(history, mine)
    IN  IF rows = <<>> THEN ScoreOrZero(scores0, u) ELSE rows[Len(rows)].new_score

\* C3: a score write and its audit entry become visible in one step or not
\* at all; a statement that fails sends the transaction to ROLLBACK, which
\* leaves the stored scores and the audit history as they were, and the
\* caller gets the error (500), its pending writes dropped for good.
C3_Atomicity ==
    [][/\ scores' # scores => history' # history
       /\ history' # history =>
             \E c \in Calls :
                /\ Commits(c)
                /\ Len(history') = Len(history) + 1
                /\ history'[Len(history')].user_id = call[c].userId
                /\ SelectScore(scores', call[c].userId)
                      = <<history'[Len(history')].new_score>>
       /\ \A u \in Users : ScoreOrZero(scores', u) = LastAudited(u)'
       /\ \A c \in Calls :
             /\ (call[c].pc # "catch" /\ call'[c].pc = "catch") =>
                   (scores' = scores /\ history' = history)
             /\ (call[c].pc = "catch" /\ call'[c].pc # "catch") =>
                   /\ scores' = scores /\ history' = history
                   /\ call'[c].tx = "rolledback" /\ call'[c].status = 500
                   /\ call'[c].staged = {} /\ call'[c].pc = "done"
                   /\ \A u \in Users : rowLock'[u] # c
             /\ call[c].tx = "rolledback" => call'[c] = call[c]]_vars

\* a call whose COMMIT failed (both writes were pending) has been rolled
\* back: the score it computed is not stored, no audit entry exists
C3_Witness ==
    \E c \in Calls :
        /\ call[c].tx = "rolledback" /\ call[c].status = 500
        /\ call[c].new = call[c].cur + call[c].inc /\ call[c].inc > 0
        /\ ScoreOrZero(scores, call[c].userId) # call[c].new
        /\ history = <<>>
        /\ \E d \in Calls : call[d].pc = "catch" /\ call[d].staged = {"score", "history"}

\* the number q is an integer of 1..1000
ValidIncrement(q) ==
    LET k == q[1] \div q[2]
    IN  k * q[2] = q[1] /\ k >= 1 /\ k <= 1000

\* call c has been received with an identity
Received(c) == call[c].userId # ""

\* C4: a mutation call whose score_increment is not an integer of 1..1000 is
\* answered 400 in its first step, which changes no table, cache, lock,
\* channel or client, and the call never runs updateScore, a broadcast or a
\* publish; an increment of 1..1000 (1 and 1000 included) is never rejected
\* for its increment.
C4_IncrementRange ==
    [][\A c \in Calls :
          /\ (Received(c)' /\ ~ValidIncrement(call'[c].body)) =>
                /\ call'[c].pc = "done" /\ call'[c].status = 400
                /\ call'[c].message = "increment"
                /\ call'[c].tx = "none" /\ gt'[c].pc = "off"
                /\ (~Received(c) =>
                       UNCHANGED <<scores, history, rowLock, lbCache, userCache,
                                   channel, wsOut, gt>>)
          /\ (Received(c)' /\ ValidIncrement(call'[c].body)) =>
                call'[c].message # "increment"]_vars

\* 1.5 was rejected with 400, and 1000 was accepted, committed and answered 200
C4_Witness ==
    \E c, d \in Calls :
        /\ call[c].status = 400 /\ call[c].body = <<3, 2>>
        /\ call[d].tx = "committed" /\ call[d].body = <<1000, 1>>
        /\ call[d].status = 200

\* C5: a call passes timestamp validation exactly when it carries no
\* timestamp or one at most 5 minutes (300000 ms) from the server time.
C5_ReplayWindow ==
    (probe.fn = "validate" /\ probe.out # "pending"
        /\ ValidIncrement(probe.scoreIncrement))
    => ((probe.out = "ok")
           <=> (\/ probe.timestamp = <<>>
                \/ /\ probe.timestamp # <<>>
                   /\ probe.timestamp[1] - probe.now <= maxTimeDiff
                   /\ probe.now - probe.timestamp[1] <= maxTimeDiff))

\* C6: every step leaves at most one scores row per participant and lowers
\* no participant's committed score.
C6_Monotone ==
    [][\A u \in Users :
          /\ Len(SelectScore(scores', u)) <= 1
          /\ ScoreOrZero(scores', u) >= ScoreOrZero(scores, u)]_vars

\* the calls whose transaction committed
CommittedCalls == {c \in Calls : call[c].tx = "committed"}

\* C7: a step leaves the audit history as it is or appends one entry to it,
\* the latter exactly when a transaction commits; a call that fails adds
\* none, so the history has one entry per committed call; every entry has
\* new_score = previous_score + score_increment, score_increment in 1..1000.
C7_AppendOnly ==
    [][/\ \/ history' = history
          \/ /\ Len(history') = Len(history) + 1
             /\ SubSeq(history', 1, Len(history)) = history
       /\ \A c \in Calls :
             /\ Commits(c) => Len(history') = Len(history) + 1
             /\ (call'[c].status \in {400, 401} \/ call'[c].tx = "rolledback")
                   /\ call'[c] # call[c] => history' = history
       /\ Len(history') = Cardinality(CommittedCalls')
       /\ \A i \in 1..Len(history') :
             /\ history'[i].new_score
                   = history'[i].previous_score + history'[i].score_increment
             /\ history'[i].score_increment \in MinIncrement..MaxIncrement]_vars

\* two entries were appended, the second on top of the first
C7_Witness ==
    /\ Len(history) = 2
    /\ history[1].user_id = history[2].user_id
    /\ history[2].previous_score = history[1].new_score
    /\ history[1].previous_score = 100

\* the zero-offset top-10 read calls that have returned a listing
TopReturned == {r \in Readers : rd[r].kind = "top" /\ gt[r].pc = "ret"
                                   /\ gt[r].limit = Top10}

\* C8: with the cache reachable, a getTopUsers(10, 0) call that started
\* after updateScore(X, d) returned lists X with a score of at least the
\* returned newScore (every participant with a row is in the top 10 here).
C8_NoStaleRead ==
    \A r \in TopReturned :
        redisUp =>
            \A u \in Users :
                rd[r].floor[u] > 0 =>
                    \E i \in 1..Len(gt[r].board) :
                        /\ gt[r].board[i].user_id = u
                        /\ gt[r].board[i].score >= rd[r].floor[u]

\* C9: a read call (getTopUsers, getUserScore) does not fail because the
\* cache is unreachable: it throws only the store's errors.
C9_CacheDegrades ==
    \A r \in Readers :
        /\ gt[r].pc = "err" => gt[r].cause # "cache"
        /\ rd[r].pc = "thrown" => rd[r].cause # "cache"

\* the score of u in a table with at most one row per participant
ScoreIn(tbl, u) == CHOOSE x \in {tbl[i].score : i \in {j \in 1..Len(tbl) :
                                                        tbl[j].user_id = u}} : TRUE

Holders(tbl) == {tbl[i].user_id : i \in 1..Len(tbl)}

\* C10: for a participant p with a row, getUserRank(p) is 1 + the number of
\* rows with a strictly greater score; equal scores get equal ranks.
C10_Rank ==
    (probe.fn = "getUserRank" /\ probe.out # 0 /\ probe.userId \in Holders(scores))
    => /\ probe.out = 1 + Cardinality({v \in Holders(scores) :
                              ScoreIn(scores, v) > ScoreIn(scores, probe.userId)})
       /\ \A v \in Holders(scores) :
             ScoreIn(scores, v) = ScoreIn(scores, probe.userId)
                => getUserRank(scores, v) = probe.out

\* scores 200, 150, 100: the participant with 150 has rank 2
C10_Witness ==
    /\ probe.fn = "getUserRank" /\ probe.out = 2
    /\ Holders(scores) = Users
    /\ {ScoreIn(scores, v) : v \in Users} = {100, 150, 200}
    /\ ScoreIn(scores, probe.userId) = 150

\* the (user_id, score) pairs of a listing or of table rows, in order
Entries(rows) == [i \in 1..Len(rows) |-> <<rows[i].user_id, rows[i].score>>]

\* the listing is the page offset+1 .. offset+limit of a score-descending
\* order of a table the store has held (with one mutation call these are the
\* initial table and the current one)
PageOfStore(board, limit, offset) ==
    \E tbl \in {scores0, scores} :
        \E sorted \in OrderByScoreDesc(tbl) :
            Entries(board) = Entries(LimitOffset(sorted, limit, offset))

\* C11: the listing a getTopUsers(limit, offset) call returns is the page
\* offset+1 .. offset+limit of a score-descending order of the store as it
\* was when the listing was computed: at most limit entries, none missing.
C11_TopPage ==
    \A r \in Readers :
        (rd[r].kind = "top" /\ gt[r].pc = "ret")
            => PageOfStore(gt[r].board, gt[r].limit, gt[r].offset)

\* C12: a getTopUsers(limit, 0) call that starts after an identical call has
\* returned, in the same cache lifetime and with no mutation in between,
\* returns the listing the earlier call returned.
C12_Idempotent ==
    [][\A r1, r2 \in Readers :
          (/\ gt[r1].pc = "ret"
           /\ rd[r2].pc = "idle" /\ gt'[r2].pc = "ret"
           /\ gt'[r2].limit = gt[r1].limit)
          => gt'[r2].board = gt[r1].board]_vars

\* the messages of one type a connection has received
InboxOf(k, type) == {n \in 1..Len(conn[k].inbox) : conn[k].inbox[n].type = type}

\* connection k is in the Map of instance i
Registered(i, k) ==
    \E u \in Users : connections[i][u] # Null /\ k \in connections[i][u][1]

\* C15: no connection receives the 'leaderboard' snapshot twice, and when
\* handleConnection of an attached, still open connection runs to its end
\* the connection has received it once (unless the store failed to answer
\* the listing query).
C15_SnapshotOnce ==
    [][\A k \in Conns :
          /\ Cardinality(InboxOf(k, "leaderboard")') <= 1
          /\ (/\ conn[k].pc = "attach" /\ conn'[k].pc = "live"
              /\ conn[k].readyState = "OPEN"
              /\ gt[k].cause # "store")
                => Cardinality(InboxOf(k, "leaderboard")') = 1]_vars

\* C16: no connection receives a scoreboard_update before its initial
\* 'leaderboard' snapshot.
C16_SnapshotFirst ==
    \A k \in Conns :
        \A n \in InboxOf(k, "leaderboard") :
            \A b \in InboxOf(k, "scoreboard_update") : n < b

C18_RegistryOpen ==
    \A i \in Instances :
        /\ \A k \in Conns : Registered(i, k) => conn[k].readyState = "OPEN"
        /\ \A u \in Users : connections[i][u] # <<{}>>
        /\ getConnectionStats(i).totalConnections
              = Cardinality({k \in Conns : /\ conn[k].inst = i
                                            /\ conn[k].pc \in {"attach", "live"}
                                            /\ conn[k].readyState = "OPEN"})

\* C19: an attached connection whose client has stopped answering pings is
\* eventually closed and out of the registry.
C19_ProbeEnforced ==
    \A k \in Conns :
        (conn[k].pc = "live" /\ conn[k].readyState = "OPEN" /\ ~conn[k].answering)
            ~> (conn[k].readyState = "CLOSED" /\ ~Registered(conn[k].inst, k))

\* connection k has received a scoreboard_update naming Y with the rank Y
\* has in the store
Reached(k, Y) ==
    \E n \in InboxOf(k, "scoreboard_update") :
        /\ conn[k].inbox[n].updated_user # Null
        /\ conn[k].inbox[n].updated_user = <<Y, LeaderboardUserRank(scores, Y)>>

\* the transaction of call c has just committed and left its participant
\* inside the top 10
CommittedInTop10(c) ==
    /\ call[c].tx = "committed" /\ call[c].pc = "invUser"
    /\ \A sorted \in OrderByScoreDesc(scores) : InTop10(sorted, call[c].userId)

\* C13: when a mutation of Y has committed and left Y inside the top 10,
\* every open attached connection of an instance whose subscriber is up
\* eventually receives a scoreboard_update naming Y with its new rank.
C13_BroadcastReach ==
    \A c \in 1..HubCalls : \A k \in Conns :
        (/\ CommittedInTop10(c)
         /\ conn[k].pc = "live" /\ conn[k].readyState = "OPEN"
         /\ sub[conn[k].inst].state = "on")
            ~> Reached(k, call[c].userId)

\* call c answers 200 in this step
Answers200(c) == call[c].pc # "done" /\ call'[c].pc = "done" /\ call'[c].status = 200

C20_DeadChannel ==
    [][\A c \in Calls :
          /\ (call[c].pc = "publish" /\ call'[c] # call[c]) =>
                /\ call'[c].status = 200
                /\ call'[c].cur = call[c].cur /\ call'[c].new = call[c].new
                /\ SelectScore(scores, call[c].userId) = <<call[c].new>>
          /\ (/\ call[c].pc = "bcast" /\ call'[c].pc = "publish"
              /\ (~redisUp \/ sub[Handler(c)].state = "failed")
              /\ gt[c].cause # "store")
                => \A k \in Conns :
                      (conn[k].inst = Handler(c) /\ conn[k].readyState = "OPEN")
                      => /\ Len(conn'[k].inbox) = Len(conn[k].inbox) + 1
                         /\ conn'[k].inbox[Len(conn'[k].inbox)].type
                               = "scoreboard_update"]_vars

\* C21: a mutation call answered with an error (400, 401 or 500) has
\* committed no score change and no audit entry (its transaction has not
\* committed), so repeating it cannot apply the increment twice.
C21_ErrorsRetrySafe ==
    \A c \in Calls :
        call[c].status \in {400, 401, 500} => call[c].tx # "committed"

\* C22: a mutation call that carries no token or one that does not verify
\* is answered 401 in its first step, which reports no validation result and
\* changes no table, lock, cache, channel or client; the call takes no
\* further step.
C22_Unauthenticated ==
    [][\A c \in Calls :
          /\ (/\ call[c].pc = "idle" /\ call'[c].pc # "idle"
              /\ call'[c].token \in {"", "bad"})
                => /\ call'[c].pc = "done" /\ call'[c].status = 401
                   /\ call'[c].message = "" /\ call'[c].tx = "none"
                   /\ call'[c].userId = ""
                   /\ UNCHANGED <<scores, history, rowLock, lbCache, userCache,
                                  channel, wsOut, gt, hubVars>>
          /\ call[c].status = 401 => call'[c] = call[c]]_vars

\* a call with a token that does not verify was answered 401 while the
\* other call, authenticated, committed and was answered 200
C22_Witness ==
    \E c, d \in Calls :
        /\ call[c].token = "bad" /\ call[c].status = 401
        /\ call[d].token \in Mutators /\ call[d].tx = "committed"
        /\ call[d].status = 200 /\ Len(history) = 1

\* the parameters of read call r as the controller parses them
LimitOf(r) == ParseInt(OrDefault(rd[r].query[1], "10"))

OffsetOf(r) == ParseInt(OrDefault(rd[r].query[2], "0"))

\* C23: a leaderboard request whose limit is not a number of 1..100 or
\* whose offset is not a number >= 0 is answered 400 in its first step,
\* without a look into the cache or the store (and so never with 500).
C23_QueryValidated ==
    \A r \in BoardReaders :
        (/\ rd[r].kind = "board"
         /\ \/ LimitOf(r) = NaN \/ LimitOf(r) < 1 \/ LimitOf(r) > 100
            \/ OffsetOf(r) = NaN \/ OffsetOf(r) < 0)
        => /\ rd[r].pc = "done" /\ rd[r].status = 400
           /\ gt[r] = IdleGt

\* C24: getUserScore(u) returns the cached value of u when there is one,
\* without a query; otherwise it queries the store, returns the store's
\* score (0 without a row) unless the store fails, and writes that value
\* under user_score:u.
C24_ReadThrough ==
    [][\A r \in Readers :
          LET u == rd'[r].userId IN
          /\ (rd[r].pc = "idle" /\ rd'[r].kind = "score") =>
                IF userCache[u] # Null
                THEN rd'[r].pc = "done" /\ rd'[r].score = userCache[u][1]
                ELSE rd'[r].pc = "us_query"
          /\ (rd[r].pc = "us_query" /\ rd'[r].pc # "us_query") =>
                \/ rd'[r].pc = "thrown" /\ rd'[r].cause = "store"
                \/ rd'[r].pc = "us_set" /\ rd'[r].score = ScoreOrZero(scores, u)
          /\ (rd[r].pc = "us_set" /\ rd'[r].pc # "us_set") =>
                /\ rd'[r].pc = "done" /\ rd'[r].score = rd[r].score
                /\ userCache'[u] = <<rd[r].score>>]_vars

\* C25: with the cache reachable, when updateScore(U, d) returns, no score
\* older than the returned newScore is cached under user_score:U, and a
\* getUserScore(U) call that started after the return does not return less
\* than the newScore that was returned.
C25_FreshScore ==
    [][redisUp =>
          /\ \A c \in Calls :
                (call[c].pc = "invLb" /\ call'[c].pc = "rank")
                    => \/ userCache'[call[c].userId] = Null
                       \/ userCache'[call[c].userId][1] >= call[c].new
          /\ \A r \in Readers :
                (rd'[r].kind = "score" /\ rd'[r].pc = "done" /\ rd[r].pc # "done")
                    => rd'[r].score >= rd'[r].floor[rd'[r].userId]]_vars

\* C26: every 'subscribe' message the client of an attached connection has
\* sent has been answered with one 'subscribed' confirmation.
C26_SubscribeAnswered ==
    \A k \in Conns :
        Cardinality(InboxOf(k, "subscribed")) = conn[k].subs

\* C27: a step changes the entry leaderboard:top10 only when it is the
\* cache write of a getTopUsers call with offset 0 and limit 10; a call with
\* another limit or an offset other than 0 leaves the entry as it is.
C27_CanonicalWrite ==
    [][lbCache' # lbCache =>
          \E p \in Procs :
             /\ gt[p].pc = "set" /\ gt'[p].pc = "ret"
             /\ gt[p].offset = 0 /\ gt[p].limit = Top10]_vars

\* C28: with no mutation, every listing a getTopUsers(limit, 0) call
\* returns, from the cache or from the store, is a listing the store
\* answers for that limit: the same entries in the same order,
\* min(limit, number of participants) of them.
C28_CacheAgrees ==
    \A r \in Readers :
        (rd[r].kind = "top" /\ gt[r].pc = "ret")
            => /\ Len(gt[r].board) = Min(gt[r].limit, Len(scores))
               /\ \E sorted \in OrderByScoreDesc(scores) :
                     gt[r].board = LeaderboardRows(sorted, gt[r].limit, 0)

\* C29: the i-th entry of the listing getTopUsers(limit, offset) returns
\* carries rank offset + i, its position in the score-descending order of
\* all participants.
C29_OrdinalRank ==
    \A r \in BoardReaders :
        (rd[r].kind = "board" /\ gt[r].pc = "ret")
            => \A i \in 1..Len(gt[r].board) :
                  gt[r].board[i].rank = gt[r].offset + i

\* no other call names the participant of call c
Alone(c) == \A d \in Calls \ {c} : call[d].userId # call[c].userId

\* C30: a row lock is held only by an open transaction on that row's
\* participant, so a call whose participant no other call names never finds
\* its row locked; every open transaction eventually commits or rolls back;
\* and the committed score of such a call's participant is its initial score
\* plus the call's increment, whatever the other call did, while the
\* participants no committed call names keep their rows.
C30_Independent ==
    /\ [](\A u \in Users :
            rowLock[u] # 0 => /\ call[rowLock[u]].userId = u
                              /\ call[rowLock[u]].tx = "open")
    /\ [](\A c \in Calls :
            (call[c].pc \in {"select", "upsert"} /\ Alone(c))
                => rowLock[call[c].userId] \in {0, c})
    /\ [](\A c \in Calls :
            (call[c].tx = "committed" /\ Alone(c))
                => SelectScore(scores, call[c].userId)
                      = <<ScoreOrZero(scores0, call[c].userId) + call[c].inc>>)
    /\ [](\A u \in Users :
            (\A c \in Calls : call[c].tx = "committed" => call[c].userId # u)
                => SelectScore(scores, u) = SelectScore(scores0, u))
    /\ \A c \in Calls :
          (call[c].tx = "open") ~> (call[c].tx \in {"committed", "rolledback"})

\* the calls of two participants had their transactions open together,
\* each holding its own row's lock, and both have committed
C30_Witness ==
    \E c, d \in Calls :
        /\ call[c].userId = "u1" /\ call[d].userId = "u2"
        /\ call[c].tx = "committed" /\ call[d].tx = "committed"
        /\ call[c].h0 = 0 /\ call[d].h0 = 0
        /\ SelectScore(scores, "u1") = <<100 + call[c].inc>>
        /\ SelectScore(scores, "u2") = <<120 + call[d].inc>>

\* C31: the scoreboard_update pushed for the committed mutation of call c
\* lists the call's participant (every participant with a row is in the top
\* 10 here) with a score not below the committed one and with the rank the
\* message reports as new_rank.
C31_PushShowsCommit ==
    [][\A c \in Calls :
          (call[c].pc = "bcast" /\ call'[c].pc = "publish" /\ wsOut' # wsOut)
              => LET m == wsOut'[Len(wsOut')]
                 IN  \E i \in 1..Len(m.leaderboard) :
                        /\ m.leaderboard[i].user_id = call[c].userId
                        /\ m.leaderboard[i].score >= call[c].new
                        /\ m.updated_user # Null
                              => m.leaderboard[i].rank = m.updated_user[2]]_vars

\* C32: the connections attached to one instance (totalConnections of
\* getConnectionStats, and the open sockets handleConnection has accepted)
\* are never more than the configured maxConnections.
C32_ConnectionLimit ==
    \A i \in Instances :
        /\ getConnectionStats(i).totalConnections <= getConnectionStats(i).maxConnections
        /\ Cardinality({k \in Conns : /\ conn[k].inst = i
                                      /\ conn[k].pc \in {"attach", "live"}
                                      /\ conn[k].readyState = "OPEN"})
              <= getConnectionStats(i).maxConnections

\* the audit entries of participant u, in commit order
AuditOf(u) ==
    LET mine(h) == h.user_id = u
    IN  SelectSeq(history, mine)

RECURSIVE SumIncrements(_)
SumIncrements(rows) ==
    IF rows = <<>> THEN 0 ELSE Head(rows).score_increment + SumIncrements(Tail(rows))

\* C33: for a participant that started without a score, the stored score is
\* the sum of score_increment over its audit entries, and each entry's
\* previous_score is the new_score of the participant's entry before it (0
\* for the first).
C33_LedgerMatchesAudit ==
    \A u \in Users :
        ScoreOrZero(scores0, u) = 0
            => /\ ScoreOrZero(scores, u) = SumIncrements(AuditOf(u))
               /\ \A i \in 1..Len(AuditOf(u)) :
                     AuditOf(u)[i].previous_score
                        = IF i = 1 THEN 0 ELSE AuditOf(u)[i - 1].new_score

\* C34: when the caller has an entry in the listing of a getLeaderboard
\* response, the entry's rank is the response's userRank.
C34_RankConsistent ==
    (probe.fn = "getLeaderboard" /\ probe.out # Null)
        => LET res == probe.out[1]
           IN  \A i \in 1..Len(res.leaderboard) :
                  (res.leaderboard[i].user_id = probe.userId /\ res.userRank # Null)
                      => res.leaderboard[i].rank = res.userRank[1]

\* C35: for a participant without a row, getUserRank and the userRank of
\* getLeaderboard are 1 plus the number of participants with a score above 0.
C35_AbsentRanksAsZero ==
    LET expected == 1 + Cardinality({v \in Holders(scores) : ScoreIn(scores, v) > 0})
    IN  /\ (probe.fn = "getUserRank" /\ probe.out # 0
               /\ probe.userId \notin Holders(scores))
            => probe.out = expected
        /\ (probe.fn = "getLeaderboard" /\ probe.out # Null
               /\ probe.userId \notin Holders(scores)
               /\ probe.out[1].userRank # Null)
            => probe.out[1].userRank[1] = expected

\* C36: a mutation call is rejected with 400 only for its increment or its
\* timestamp, never for an action_id seen before; and when two calls of one
\* participant with the same action_id have both committed, the participant
\* has two audit entries with that action_id and its score is the initial
\* score plus both increments.
C36_NoDeduplication ==
    /\ \A c \in Calls :
          call[c].status = 400 => call[c].message \in {"increment", "timestamp"}
    /\ \A c, d \in Calls :
          (/\ c # d
           /\ call[c].userId = call[d].userId /\ call[c].actionId = call[d].actionId
           /\ call[c].tx = "committed" /\ call[d].tx = "committed")
          => /\ Len(AuditOf(call[c].userId)) = 2
             /\ \A i \in 1..2 : AuditOf(call[c].userId)[i].action_id = call[c].actionId
             /\ ScoreOrZero(scores, call[c].userId)
                   = ScoreOrZero(scores0, call[c].userId) + call[c].inc + call[d].inc

\* the scores participant u has had committed so far: its initial score and
\* the new_score of each of its audit entries
EverCommitted(u) ==
    (IF HasRow(scores0, u) THEN {ScoreOrZero(scores0, u)} ELSE {})
        \cup {AuditOf(u)[i].new_score : i \in 1..Len(AuditOf(u))}

\* every entry of the listing shows a score its participant has had committed
ShowsCommitted(board) ==
    \A i \in 1..Len(board) : board[i].score \in EverCommitted(board[i].user_id)

\* C37: every score in the cached snapshot, in a listing a getTopUsers call
\* holds or has returned, and in a pushed message has been the committed
\* score of its participant (never a pending or rolled-back write), and a
\* call gets to its broadcast only with its transaction committed.
C37_CommittedOnly ==
    /\ lbCache # Null => ShowsCommitted(lbCache[1])
    /\ \A p \in Procs : ShowsCommitted(gt[p].board)
    /\ \A n \in 1..Len(wsOut) : ShowsCommitted(wsOut[n].leaderboard)
    /\ \A k \in Conns : \A n \in 1..Len(conn[k].inbox) :
          conn[k].inbox[n].type \in {"leaderboard", "scoreboard_update"}
              => ShowsCommitted(conn[k].inbox[n].leaderboard)
    /\ \A c \in Calls :
          (call[c].pc \in {"bcast", "publish"} \/ gt[c].pc # "off")
              => call[c].tx = "committed"

\* a transaction that had computed 100 + increment for its participant was
\* rolled back, and the cached listing, which a read call has returned,
\* shows the participant with 100
C37_Witness ==
    \E c \in Calls :
        /\ call[c].tx = "rolledback" /\ call[c].new = call[c].cur + call[c].inc
        /\ call[c].cur = 100
        /\ lbCache # Null
        /\ \E i \in 1..Len(lbCache[1]) :
              /\ lbCache[1][i].user_id = call[c].userId
              /\ lbCache[1][i].score = call[c].cur
        /\ \E r \in Readers : gt[r].pc = "ret" /\ gt[r].board = lbCache[1]

\* no mutation call and no broadcast is in progress, and every committed
\* mutation has answered 200 and triggered its broadcast
Settled ==
    /\ \A c \in Calls : call[c].pc \in {"idle", "done"}
    /\ \A t \in Relays : relay[t].pc # "bcast"
    /\ \A c \in Calls :
          call[c].tx = "committed" => call[c].status = 200 /\ call[c].inTop10

\* C38: once the mutations have stopped and their broadcasts have completed,
\* the last scoreboard_update an open attached connection has received
\* carries the store's current top-10 listing.
C38_Converge ==
    Settled =>
        \A k \in Conns :
            (conn[k].pc = "live" /\ conn[k].readyState = "OPEN"
                /\ InboxOf(k, "scoreboard_update") # {})
            => LET last == conn[k].inbox[Max(InboxOf(k, "scoreboard_update"))]
               IN  \E sorted \in OrderByScoreDesc(scores) :
                      Entries(last.leaderboard)
                          = Entries(LimitOffset(sorted, Top10, 0))

\* the mutation calls that have run their broadcast step
Broadcasters == {c \in 1..HubCalls : call[c].inTop10 /\ call[c].pc \in {"publish", "done"}}

\* C39: per mutation that triggers a broadcast, a connection of the instance
\* that handled it receives at most two scoreboard_update messages (the
\* direct push and the relayed one) and a connection of another instance at
\* most one: each broadcasting call publishes at most one message, and a
\* connection holds at most one update per broadcasting call plus one more
\* per broadcasting call its own instance handled.
C39_BoundedDuplication ==
    /\ Len(channel) <= Cardinality(Broadcasters)
    /\ \A k \in Conns :
          Cardinality(InboxOf(k, "scoreboard_update"))
              <= Cardinality({c \in Broadcasters : Handler(c) = conn[k].inst})
                    + Cardinality(Broadcasters)

\* the mutation was pushed and relayed: a connection of the handling
\* instance holds two updates and a connection of another instance one
C39_Witness ==
    /\ \E c \in 1..HubCalls : call[c].pc = "done" /\ call[c].status = 200
    /\ \A t \in Relays : relay[t].pc = "done"
    /\ \E k \in Conns :
          /\ conn[k].inst = 1
          /\ Cardinality(InboxOf(k, "scoreboard_update")) = 2
    /\ \E k \in Conns :
          /\ conn[k].inst # 1
          /\ Cardinality(InboxOf(k, "scoreboard_update")) = 1

\* the positions of a call inside updateScore with its client checked out
InUpdateScore ==
    {"begin", "select", "upsert", "history", "commit", "catch", "invUser", "invLb"}

\* C40: a client that updateScore checked out of the pool is held exactly
\* while the call is inside updateScore and has been released exactly once
\* when updateScore has returned or thrown: after a commit, after a failing
\* statement followed by ROLLBACK, and when ROLLBACK itself failed.
C40_ReleasedOnce ==
    \A c \in Calls :
        /\ call[c].client = "out" <=> call[c].pc \in InUpdateScore
        /\ call[c].client = "back" <=> call[c].releases = 1
        /\ call[c].releases <= 1
        /\ call[c].tx # "none" /\ call[c].pc \notin InUpdateScore
              => call[c].releases = 1

\* one call has committed and returned, another had a statement fail and
\* its ROLLBACK fail as well; both clients are back in the pool
C40_Witness ==
    \E c, d \in Calls :
        /\ call[c].tx = "committed" /\ call[c].pc = "done"
        /\ call[c].releases = 1
        /\ call[d].rollback = "failed" /\ call[d].pc = "done"
        /\ call[d].status = 500 /\ call[d].releases = 1

====
